---- MODULE Spec2Model ----
(***************************************************************************)
(* Model of qseek/waveforms/squirrel.py: the asynchronous pre-fetcher      *)
(* (SquirrelPrefetcher.prefetch_worker) draining a batch source into a     *)
(* bounded asyncio.Queue, and the consumer loop of                         *)
(* PyrockoSquirrel.iter_batches that dequeues, cleans, records and         *)
(* classifies each batch.                                                  *)
(*                                                                         *)
(* asyncio is cooperative: a task runs until it suspends.  Every action    *)
(* below is one run of a task from a point where it can suspend (awaiting  *)
(* the source, queue.put on a full queue, queue.get on an empty queue, the *)
(* generator's yield) to the next one.  queue.get on a non-empty queue and *)
(* queue.put on a non-full queue do not suspend, but the model lets the    *)
(* other task run there too, which only adds interleavings.                *)
(***************************************************************************)
EXTENDS Integers, Sequences, FiniteSets, TLC

\* ---------------------------------------------------------------- bounds
MaxBatches == 3     \* most batches (windows) of one stream
MaxCap     == 2     \* largest async_prefetch_batches tried
MaxElapsed == 1     \* clock ticks counted since the worker's `start`
MaxDur     == 1     \* longest batch duration (tmax - tmin)
TraceBytes == 4     \* ydata.nbytes of one good trace
MaxTime    == 1     \* latest instant of the short time spans tried
MaxPad     == 1     \* longest window_padding tried
MaxStreams == 2     \* most runs of iter_batches on one provider

\* ---------------------------------------------------------------- values
\* The queue's end-of-stream item (Python None); a batch has i >= 0.
None == [i |-> -1, traces |-> << >>, tmin |-> 0, tmax |-> 0]

\* min_length=None of iter_batches, and the values of min_length tried
NoMinLength == -1
MinLengths == {NoMinLength, MaxDur}

\* start_time / end_time not given (Python None); an instant is >= 0.
NoTime == -1
Times == 0..MaxTime

\* The trace lists of the raw batches tried: no trace, one bad trace, one good
\* trace.  A trace is TRUE when its samples are non-empty and finite.
TraceSeqs == {<< >>, <<FALSE>>, <<TRUE>>}

\* The items the source (squirrel.chopper_waveforms_async) can emit as its
\* i-th batch: window i starts at tmin = i.
RawBatches(i) ==
  {[i |-> i, traces |-> t, tmin |-> i, tmax |-> i + d] :
     t \in TraceSeqs, d \in 0..MaxDur}

VARIABLES
  async_prefetch_batches, \* PyrockoSquirrel.async_prefetch_batches
  min_length,             \* argument of iter_batches
  queue,                  \* prefetcher.queue, oldest item first
  maxsize,                \* prefetcher.queue.maxsize
  unfinished_tasks,       \* prefetcher.queue._unfinished_tasks
  load_time,              \* prefetcher.load_time
  fetched_batches,        \* prefetcher._fetched_batches
  start_elapsed,          \* datetime_now() - start, in the worker
  fetch_elapsed,          \* history: time the pending source request has taken
  workerPc,               \* position of prefetch_worker
  pending,                \* item the worker is suspended in queue.put with
  consumerPc,             \* position of iter_batches
  error,                  \* exception that ended iter_batches
  empty_batches,          \* stats.empty_batches
  short_batches,          \* stats.short_batches
  bytes_per_seconds,      \* stats.bytes_per_seconds, as num / den
  stations,               \* PyrockoSquirrel._stations is bound
  squirrel,               \* PyrockoSquirrel._squirrel is built
  self_start_time,        \* PyrockoSquirrel.start_time
  self_end_time,          \* PyrockoSquirrel.end_time
  sq_tmin,                \* extent reported by squirrel.get_time_span
  sq_tmax,
  arg_start_time,         \* arguments the caller passes to iter_batches
  arg_end_time,
  window_padding,
  calls_left,             \* runs of iter_batches the caller still makes
  start_time,             \* locals of iter_batches after lines 196-197
  end_time,
  get_time_span_calls,    \* history: calls of squirrel.get_time_span
  chopper_requests,       \* history: tmin, tmax of every chopper request
  enqueued,               \* history: i of every item put, in order
  dequeued,               \* history: number of batches taken by queue.get
  yielded                 \* history: i_batch of every batch yielded, in order

vars == <<async_prefetch_batches, min_length, queue, maxsize, unfinished_tasks,
          load_time, fetched_batches, start_elapsed, fetch_elapsed, workerPc,
          pending, consumerPc, error, empty_batches, short_batches,
          bytes_per_seconds, enqueued, dequeued, yielded, stations, squirrel,
          self_start_time, self_end_time, sq_tmin, sq_tmax, arg_start_time,
          arg_end_time, window_padding, calls_left, start_time, end_time,
          get_time_span_calls, chopper_requests>>

prefetcherVars == <<queue, maxsize, unfinished_tasks, load_time,
                    fetched_batches, start_elapsed, fetch_elapsed, workerPc,
                    pending, enqueued>>

consumerVars == <<consumerPc, error, empty_batches, short_batches,
                  bytes_per_seconds, dequeued, yielded>>

configVars == <<async_prefetch_batches, min_length>>

\* The provider's fields, the engine's extent and the caller's arguments.
scenarioVars == <<self_start_time, self_end_time, sq_tmin, sq_tmax,
                  arg_start_time, arg_end_time, window_padding>>

spanVars == <<stations, squirrel, self_start_time, self_end_time, sq_tmin,
              sq_tmax, arg_start_time, arg_end_time, window_padding,
              calls_left, start_time, end_time, get_time_span_calls,
              chopper_requests>>

\* ------------------------------------------------------- asyncio.Queue
\* A full test that lets one item too many in.
full_off_by_one(q, m) == IF m <= 0 THEN FALSE ELSE Len(q) > m

\* Queue.full(): a maxsize <= 0 means an unbounded queue.
full(q, m) == IF m <= 0 THEN FALSE ELSE Len(q) >= m

\* A last-in first-out queue: the item goes to the front.
put_nowait_lifo(q, item) == <<item>> \o q

\* Queue.put_nowait(): the item goes to the back.
put_nowait(q, item) == Append(q, item)

\* Queue.get_nowait(): the item at the front.
get_nowait(q) == Head(q)

\* ------------------------------------------------------- WaveformBatch
\* WaveformBatch.clean_traces(): drops the empty or bad traces.
clean_traces(b) == [b EXCEPT !.traces = SelectSeq(b.traces, LAMBDA tr : tr)]

\* The batch iter_batches builds from a dequeued item (lines 228-236): the
\* item's traces, times and index, then clean_traces().
WaveformBatch(item) == clean_traces(item)

\* WaveformBatch.is_empty()
is_empty(b) == Len(b.traces) = 0

\* WaveformBatch.cumulative_bytes
cumulative_bytes(b) == Len(b.traces) * TraceBytes

\* WaveformBatch.duration
duration(b) == b.tmax - b.tmin

\* `min_length and batch.duration < min_length`: None and a zero timedelta
\* are both falsy.
too_short(b, ml) == ml # NoMinLength /\ ml # 0 /\ duration(b) < ml

\* ------------------------------------------------------ PyrockoSquirrel
\* _validate_model: a start_time after the end_time is refused.
validate_model(st, et) == ~(st # NoTime /\ et # NoTime /\ st > et)

\* Python's `a or b` on an optional datetime: a datetime is always truthy.
or_else(a, b) == IF a # NoTime THEN a ELSE b

\* The provider's bound taken before the caller's argument.
resolve_time_config_first(arg, own, reported) ==
  or_else(or_else(own, arg), reported)

\* start_time = start_time or self.start_time or to_datetime(sq_tmin)
resolve_time(arg, own, reported) == or_else(or_else(arg, own), reported)

\* The extent is asked for only when a bound is left open.
time_span_queries_if_open(a_st, own_st, a_et, own_et) ==
  IF or_else(a_st, own_st) # NoTime /\ or_else(a_et, own_et) # NoTime
  THEN 0 ELSE 1

\* sq_tmin, sq_tmax = squirrel.get_time_span(["waveform"]): one call, whatever
\* the bounds.
time_span_queries(a_st, own_st, a_et, own_et) == 1

\* The windows of one window_increment (one time unit) that fit into the
\* requested range: the source emits no more batches than that.
Windows(request) ==
  IF request.tmax > request.tmin THEN request.tmax - request.tmin ELSE 0

\* -------------------------------------------------------- the scenarios
\* One long stream: no bounds given, no padding, MaxBatches windows, every
\* queue size.  The other scenarios run with the smallest queue.
StreamScenarios ==
  {[self_start_time |-> NoTime, self_end_time |-> NoTime,
    arg_start_time |-> NoTime, arg_end_time |-> NoTime, window_padding |-> 0,
    sq_tmin |-> 0, sq_tmax |-> MaxBatches, calls |-> 1,
    queue_sizes |-> 1..MaxCap]}

\* Short spans: every configured bound the validator accepts, every argument
\* and every padding over the instants 0..MaxTime.
SpanScenarios ==
  {sc \in [self_start_time : {NoTime} \cup Times,
           self_end_time : {NoTime} \cup Times,
           arg_start_time : {NoTime} \cup Times,
           arg_end_time : {NoTime} \cup Times,
           window_padding : 0..MaxPad,
           sq_tmin : {0}, sq_tmax : {MaxTime}, calls : {1},
           queue_sizes : {{1}}] :
     validate_model(sc.self_start_time, sc.self_end_time)}

\* Several runs of iter_batches on one provider, one window each.
RerunScenarios ==
  {[self_start_time |-> NoTime, self_end_time |-> NoTime,
    arg_start_time |-> NoTime, arg_end_time |-> NoTime, window_padding |-> 0,
    sq_tmin |-> 0, sq_tmax |-> 1, calls |-> MaxStreams,
    queue_sizes |-> {1}]}

Scenarios == StreamScenarios \cup SpanScenarios \cup RerunScenarios

\* ---------------------------------------------------------------- Init
Init ==
  /\ min_length = NoMinLength
  /\ queue = << >>
  /\ maxsize = 0
  /\ unfinished_tasks = 0
  /\ load_time = 0
  /\ fetched_batches = 0
  /\ start_elapsed = 0
  /\ fetch_elapsed = 0
  /\ workerPc = "none"
  /\ pending = None
  /\ consumerPc = "init"
  /\ error = "none"
  /\ empty_batches = 0
  /\ short_batches = 0
  /\ bytes_per_seconds = [num |-> 0, den |-> 1]
  /\ enqueued = << >>
  /\ dequeued = 0
  /\ yielded = << >>
  /\ stations = FALSE
  /\ squirrel = FALSE
  /\ \E sc \in Scenarios :
       /\ self_start_time = sc.self_start_time
       /\ self_end_time = sc.self_end_time
       /\ sq_tmin = sc.sq_tmin
       /\ sq_tmax = sc.sq_tmax
       /\ arg_start_time = sc.arg_start_time
       /\ arg_end_time = sc.arg_end_time
       /\ window_padding = sc.window_padding
       /\ calls_left = sc.calls
       /\ async_prefetch_batches \in sc.queue_sizes
  /\ start_time = NoTime
  /\ end_time = NoTime
  /\ get_time_span_calls = 0
  /\ chopper_requests = << >>

\* ------------------------------------------- SquirrelPrefetcher.__init__
\* A queue built without its maxsize argument.
prefetcher_maxsize_unbounded(queue_size) == 0

\* self.queue = asyncio.Queue(maxsize=queue_size)
prefetcher_maxsize(queue_size) == queue_size

\* A stats object made anew for the stream.
stats_fresh(counter) == 0

\* stats = self._stats: the provider's one stats object, made with the
\* provider (PrivateAttr(default_factory=SquirrelStats)) and used as it is.
stats(counter) == counter

\* ------------------------------------------------------------ prepare
\* prepare(): binds the stations and builds the squirrel (get_squirrel).
prepare ==
  /\ ~stations
  /\ stations' = TRUE
  /\ squirrel' = TRUE
  /\ UNCHANGED <<calls_left, start_time, end_time, get_time_span_calls,
                 chopper_requests>>
  /\ UNCHANGED scenarioVars
  /\ UNCHANGED prefetcherVars
  /\ UNCHANGED consumerVars
  /\ UNCHANGED configVars

\* ------------------------------------------------------- iter_batches
\* The test for the stations placed after the first calls to the engine.
iter_batches_not_prepared_late ==
  /\ consumerPc = "init"
  /\ calls_left > 0
  /\ ~stations
  /\ calls_left' = calls_left - 1
  /\ squirrel' = TRUE
  /\ get_time_span_calls' = get_time_span_calls + 1
  /\ consumerPc' = "failed"
  /\ error' = "ValueError"
  /\ UNCHANGED <<stations, start_time, end_time, chopper_requests>>
  /\ UNCHANGED scenarioVars
  /\ UNCHANGED prefetcherVars
  /\ UNCHANGED <<empty_batches, short_batches, bytes_per_seconds, dequeued,
                 yielded>>
  /\ UNCHANGED configVars

\* First pull of the generator with no stations bound: ValueError, before
\* anything else is done (lines 189-190).
iter_batches_not_prepared ==
  /\ consumerPc = "init"
  /\ calls_left > 0
  /\ ~stations
  /\ calls_left' = calls_left - 1
  /\ consumerPc' = "failed"
  /\ error' = "ValueError"
  /\ UNCHANGED <<stations, squirrel, start_time, end_time,
                 get_time_span_calls, chopper_requests>>
  /\ UNCHANGED scenarioVars
  /\ UNCHANGED prefetcherVars
  /\ UNCHANGED <<empty_batches, short_batches, bytes_per_seconds, dequeued,
                 yielded>>
  /\ UNCHANGED configVars

\* First pull of the generator, on a new provider or after an earlier stream
\* ended: gets the squirrel and its extent, resolves start and end, requests
\* the source for the padded range, builds the prefetcher (its queue, its
\* task, load_time at the class default) and suspends in queue.get() on the
\* still empty queue.  The stats object of the provider is used as it is.
iter_batches_begin ==
  /\ consumerPc \in {"init", "done"}
  /\ calls_left > 0
  /\ stations
  /\ calls_left' = calls_left - 1
  /\ squirrel' = TRUE
  /\ get_time_span_calls' =
       get_time_span_calls +
         time_span_queries(arg_start_time, self_start_time,
                           arg_end_time, self_end_time)
  /\ start_time' = resolve_time(arg_start_time, self_start_time, sq_tmin)
  /\ end_time' = resolve_time(arg_end_time, self_end_time, sq_tmax)
  /\ chopper_requests' =
       Append(chopper_requests, [tmin |-> start_time' + window_padding,
                                 tmax |-> end_time' - window_padding])
  /\ \E ml \in MinLengths : min_length' = ml
  /\ queue' = << >>
  /\ maxsize' = prefetcher_maxsize(async_prefetch_batches)
  /\ unfinished_tasks' = 0
  /\ load_time' = 0
  /\ fetched_batches' = 0
  /\ start_elapsed' = 0
  /\ fetch_elapsed' = 0
  /\ pending' = None
  /\ workerPc' = "created"
  /\ consumerPc' = "get"
  /\ error' = "none"
  /\ enqueued' = << >>
  /\ dequeued' = 0
  /\ yielded' = << >>
  /\ empty_batches' = stats(empty_batches)
  /\ short_batches' = stats(short_batches)
  /\ UNCHANGED <<async_prefetch_batches, stations, bytes_per_seconds>>
  /\ UNCHANGED scenarioVars

\* ---------------------------------------------------- prefetch_worker
\* The task's first run: start = datetime_now(), then it awaits the source.
prefetch_worker_start ==
  /\ workerPc = "created"
  /\ start_elapsed' = 0
  /\ fetch_elapsed' = 0
  /\ workerPc' = "fetch"
  /\ UNCHANGED <<queue, maxsize, unfinished_tasks, load_time, fetched_batches,
                 pending, enqueued>>
  /\ UNCHANGED consumerVars
  /\ UNCHANGED configVars
  /\ UNCHANGED spanVars

\* The source emits its next batch: record load_time, restart the clock and
\* put the batch, suspending in queue.put() when the queue is full.
prefetch_worker_fetch ==
  /\ workerPc = "fetch"
  /\ fetched_batches < MaxBatches
  /\ fetched_batches < Windows(chopper_requests[Len(chopper_requests)])
  /\ \E b \in RawBatches(fetched_batches) :
       /\ load_time' = start_elapsed
       /\ fetched_batches' = fetched_batches + 1
       /\ start_elapsed' = 0
       /\ fetch_elapsed' = 0
       /\ IF full(queue, maxsize)
          THEN /\ pending' = b
               /\ workerPc' = "put"
               /\ UNCHANGED <<queue, unfinished_tasks, enqueued>>
          ELSE /\ queue' = put_nowait(queue, b)
               /\ unfinished_tasks' = unfinished_tasks + 1
               /\ enqueued' = Append(enqueued, b.i)
               /\ workerPc' = "fetch"
               /\ UNCHANGED pending
  /\ UNCHANGED maxsize
  /\ UNCHANGED consumerVars
  /\ UNCHANGED configVars
  /\ UNCHANGED spanVars

\* A put that gives up on a full queue: the worker drops the batch it holds
\* and goes on to await the source.
prefetch_worker_put_dropped ==
  /\ workerPc = "put"
  /\ pending' = None
  /\ workerPc' = "fetch"
  /\ UNCHANGED <<queue, maxsize, unfinished_tasks, load_time, fetched_batches,
                 start_elapsed, fetch_elapsed, enqueued>>
  /\ UNCHANGED consumerVars
  /\ UNCHANGED configVars
  /\ UNCHANGED spanVars

\* The consumer freed a slot: the suspended queue.put(batch) completes and the
\* worker goes on to await the source.
prefetch_worker_put ==
  /\ workerPc = "put"
  /\ ~full(queue, maxsize)
  /\ queue' = put_nowait(queue, pending)
  /\ unfinished_tasks' = unfinished_tasks + 1
  /\ enqueued' = Append(enqueued, pending.i)
  /\ pending' = None
  /\ workerPc' = "fetch"
  /\ UNCHANGED <<maxsize, load_time, fetched_batches, start_elapsed,
                 fetch_elapsed>>
  /\ UNCHANGED consumerVars
  /\ UNCHANGED configVars
  /\ UNCHANGED spanVars

\* The put of the terminator moved into the loop: the worker puts None and
\* goes on fetching.
prefetch_worker_exhausted_in_loop ==
  /\ workerPc = "fetch"
  /\ ~full(queue, maxsize)
  /\ queue' = put_nowait(queue, None)
  /\ unfinished_tasks' = unfinished_tasks + 1
  /\ enqueued' = Append(enqueued, None.i)
  /\ UNCHANGED <<maxsize, load_time, fetched_batches, start_elapsed,
                 fetch_elapsed, workerPc, pending>>
  /\ UNCHANGED consumerVars
  /\ UNCHANGED configVars
  /\ UNCHANGED spanVars

\* The source is exhausted (StopAsyncIteration ends the async for): put the
\* terminator, suspending when the queue is full, and finish.  The local
\* `start` is not read again.
prefetch_worker_exhausted ==
  /\ workerPc = "fetch"
  /\ IF full(queue, maxsize)
     THEN /\ workerPc' = "put_none"
          /\ UNCHANGED <<queue, unfinished_tasks, enqueued>>
     ELSE /\ queue' = put_nowait(queue, None)
          /\ unfinished_tasks' = unfinished_tasks + 1
          /\ enqueued' = Append(enqueued, None.i)
          /\ workerPc' = "finished"
  /\ start_elapsed' = 0
  /\ fetch_elapsed' = 0
  /\ UNCHANGED <<maxsize, load_time, fetched_batches, pending>>
  /\ UNCHANGED consumerVars
  /\ UNCHANGED configVars
  /\ UNCHANGED spanVars

\* The suspended queue.put(None) completes and the task finishes.
prefetch_worker_put_none ==
  /\ workerPc = "put_none"
  /\ ~full(queue, maxsize)
  /\ queue' = put_nowait(queue, None)
  /\ unfinished_tasks' = unfinished_tasks + 1
  /\ enqueued' = Append(enqueued, None.i)
  /\ workerPc' = "finished"
  /\ UNCHANGED <<maxsize, load_time, fetched_batches, start_elapsed,
                 fetch_elapsed, pending>>
  /\ UNCHANGED consumerVars
  /\ UNCHANGED configVars
  /\ UNCHANGED spanVars

\* The source raises inside the async for: nothing in prefetch_worker catches
\* it, so the task ends with the exception stored in the never awaited _task.
prefetch_worker_raise ==
  /\ workerPc = "fetch"
  /\ workerPc' = "raised"
  /\ start_elapsed' = 0
  /\ fetch_elapsed' = 0
  /\ UNCHANGED <<queue, maxsize, unfinished_tasks, load_time, fetched_batches,
                 pending, enqueued>>
  /\ UNCHANGED consumerVars
  /\ UNCHANGED configVars
  /\ UNCHANGED spanVars

\* Wall-clock time passes while the worker waits with `start` set.
Tick ==
  /\ workerPc \in {"fetch", "put"}
  /\ start_elapsed < MaxElapsed
  /\ start_elapsed' = start_elapsed + 1
  /\ fetch_elapsed' = IF workerPc = "fetch" THEN fetch_elapsed + 1
                                          ELSE fetch_elapsed
  /\ UNCHANGED <<queue, maxsize, unfinished_tasks, load_time, fetched_batches,
                 workerPc, pending, enqueued>>
  /\ UNCHANGED consumerVars
  /\ UNCHANGED configVars
  /\ UNCHANGED spanVars

\* ------------------------------------------- iter_batches, the loop
\* Queue.task_done(); its ValueError needs more calls than items put.
task_done(u) == u - 1

\* queue.get() returns the terminator: acknowledge it and end the stream.
iter_batches_terminator ==
  /\ consumerPc = "get"
  /\ queue # << >>
  /\ get_nowait(queue) = None
  /\ queue' = Tail(queue)
  /\ unfinished_tasks' = task_done(unfinished_tasks)
  /\ consumerPc' = "done"
  /\ UNCHANGED <<maxsize, load_time, fetched_batches, start_elapsed,
                 fetch_elapsed, workerPc, pending, enqueued>>
  /\ UNCHANGED <<error, empty_batches, short_batches, bytes_per_seconds,
                 dequeued, yielded>>
  /\ UNCHANGED configVars
  /\ UNCHANGED spanVars

\* queue.get() returns a batch while prefetcher.load_time is zero: the
\* division of lines 239-241 raises ZeroDivisionError out of the generator.
iter_batches_zero_division ==
  /\ consumerPc = "get"
  /\ queue # << >>
  /\ get_nowait(queue) # None
  /\ load_time = 0
  /\ queue' = Tail(queue)
  /\ dequeued' = dequeued + 1
  /\ consumerPc' = "failed"
  /\ error' = "ZeroDivisionError"
  /\ UNCHANGED <<maxsize, unfinished_tasks, load_time, fetched_batches,
                 start_elapsed, fetch_elapsed, workerPc, pending, enqueued>>
  /\ UNCHANGED <<empty_batches, short_batches, bytes_per_seconds, yielded>>
  /\ UNCHANGED configVars
  /\ UNCHANGED spanVars

\* queue.get() returns a batch and load_time is not zero: clean it, record the
\* throughput, then count and drop it (continue) or yield it.
iter_batches_batch ==
  /\ consumerPc = "get"
  /\ queue # << >>
  /\ get_nowait(queue) # None
  /\ load_time # 0
  /\ queue' = Tail(queue)
  /\ dequeued' = dequeued + 1
  /\ LET batch == WaveformBatch(get_nowait(queue)) IN
     /\ bytes_per_seconds' =
          [num |-> cumulative_bytes(batch), den |-> load_time]
     /\ IF is_empty(batch)
        THEN /\ empty_batches' = empty_batches + 1
             /\ consumerPc' = "get"
             /\ UNCHANGED <<short_batches, yielded>>
        ELSE IF too_short(batch, min_length)
        THEN /\ short_batches' = short_batches + 1
             /\ consumerPc' = "get"
             /\ UNCHANGED <<empty_batches, yielded>>
        ELSE /\ yielded' = Append(yielded, batch.i)
             /\ consumerPc' = "yield"
             /\ UNCHANGED <<empty_batches, short_batches>>
  /\ UNCHANGED <<maxsize, unfinished_tasks, load_time, fetched_batches,
                 start_elapsed, fetch_elapsed, workerPc, pending, enqueued>>
  /\ UNCHANGED error
  /\ UNCHANGED configVars
  /\ UNCHANGED spanVars

\* The caller pulls again: the generator resumes after the yield, acknowledges
\* the batch and goes back to queue.get().
iter_batches_resume ==
  /\ consumerPc = "yield"
  /\ unfinished_tasks' = task_done(unfinished_tasks)
  /\ consumerPc' = "get"
  /\ UNCHANGED <<queue, maxsize, load_time, fetched_batches, start_elapsed,
                 fetch_elapsed, workerPc, pending, enqueued>>
  /\ UNCHANGED <<error, empty_batches, short_batches, bytes_per_seconds,
                 dequeued, yielded>>
  /\ UNCHANGED configVars
  /\ UNCHANGED spanVars

\* The caller stops consuming: aclose() at the yield or a cancellation inside
\* queue.get().  iter_batches has no try/finally and nothing cancels
\* prefetcher._task, so only the generator ends.
iter_batches_cancel ==
  /\ consumerPc \in {"get", "yield"}
  /\ consumerPc' = "cancelled"
  /\ UNCHANGED prefetcherVars
  /\ UNCHANGED <<error, empty_batches, short_batches, bytes_per_seconds,
                 dequeued, yielded>>
  /\ UNCHANGED configVars
  /\ UNCHANGED spanVars

Next ==
  \/ prepare
  \/ iter_batches_not_prepared
  \/ iter_batches_begin
  \/ prefetch_worker_start
  \/ prefetch_worker_fetch
  \/ prefetch_worker_put
  \/ prefetch_worker_exhausted
  \/ prefetch_worker_put_none
  \/ prefetch_worker_raise
  \/ Tick
  \/ iter_batches_terminator
  \/ iter_batches_zero_division
  \/ iter_batches_batch
  \/ iter_batches_resume
  \/ iter_batches_cancel

Spec == Init /\ [][Next]_vars

\* Fair scheduling: the event loop runs every task that is ready, the source
\* answers every request, and the caller keeps pulling a suspended generator.
prefetch_worker ==
  \/ prefetch_worker_start
  \/ prefetch_worker_fetch
  \/ prefetch_worker_put
  \/ prefetch_worker_exhausted
  \/ prefetch_worker_put_none
  \/ prefetch_worker_raise

iter_batches ==
  \/ iter_batches_not_prepared
  \/ iter_batches_begin
  \/ iter_batches_terminator
  \/ iter_batches_zero_division
  \/ iter_batches_batch
  \/ iter_batches_resume

FairSpec == Spec /\ WF_vars(prefetch_worker) /\ WF_vars(iter_batches)

\* ======================================================== the claims
\* The prefetcher exists (SquirrelPrefetcher.__init__ has run).
Streaming == workerPc # "none"

\* queue.get() hands a batch (not the terminator) to the loop in this step.
DequeuesBatch == dequeued' = dequeued + 1

\* The batch that step works on, built and cleaned as in lines 228-236.
DequeuedBatch == WaveformBatch(get_nowait(queue))

\* The step yields its batch to the caller.
Yields == yielded' = Append(yielded, DequeuedBatch.i)

\* C1: the queue (batches plus terminator) never holds more items than the
\* capacity the prefetcher was built with, which is at least 1 and stays the
\* configured async_prefetch_batches for the whole stream.
C1_QueueWithinFixedCapacity ==
  Streaming => /\ maxsize = async_prefetch_batches
               /\ maxsize >= 1
               /\ Len(queue) <= maxsize

\* C1 witness: the queue is full at the largest capacity while the worker is
\* suspended in queue.put with one more batch.
C1_Witness == workerPc = "put" /\ maxsize = MaxCap /\ Len(queue) = maxsize

\* C2: the batches yielded are a subsequence of the source's emission order
\* 0, 1, 2, ...: each yielded index was emitted, and the indices strictly
\* increase, so none is yielded twice or out of order.
C2_YieldedInSourceOrder ==
  \A j \in 1..Len(yielded) :
     /\ yielded[j] \in 0..(fetched_batches - 1)
     /\ j > 1 => yielded[j - 1] < yielded[j]

\* C2 witness: two batches were in the queue together, a dropped one between
\* two yielded ones.
C2_Witness == yielded = <<0, 2>> /\ maxsize >= 2

\* C5: the terminator is put at most once, only as the last item, only after
\* the source is exhausted and every batch it emitted has been put in order;
\* a worker that finished has put it, a worker whose source raised has not.
C5_TerminatorOnceAtEnd ==
  LET n == Len(enqueued)
      terms == {j \in 1..n : enqueued[j] = None.i}
  IN /\ Cardinality(terms) <= 1
     /\ \A j \in terms : /\ j = n
                         /\ workerPc = "finished"
                         /\ n = fetched_batches + 1
     /\ \A j \in (1..n) \ terms : enqueued[j] = j - 1
     /\ workerPc = "finished" => terms # {}
     /\ workerPc = "raised" => terms = {}

\* C5 witness: the worker finished after putting every batch of the longest
\* source and then the terminator.
C5_Witness ==
  /\ workerPc = "finished"
  /\ fetched_batches = MaxBatches
  /\ Len(enqueued) = MaxBatches + 1

\* C3: once the source has raised after emitting some batches, the stream
\* does not end normally, and a consumer that has received every batch emitted
\* before the failure and pulls again is not left suspended in queue.get():
\* the pull raises and the stream is FAILED.
C3_SourceFailureSurfaced ==
  /\ workerPc = "raised" => consumerPc # "done"
  /\ ~ /\ workerPc = "raised"
       /\ fetched_batches >= 1
       /\ dequeued = fetched_batches
       /\ queue = << >>
       /\ consumerPc = "get"

\* C4: after the consumer is cancelled or abandoned mid-stream (it had taken
\* a batch already), the prefetch task is not alive: it is neither fetching
\* from the source nor suspended in queue.put.
C4_NoProducerAfterCancel ==
  (consumerPc = "cancelled" /\ dequeued >= 1) =>
     workerPc \in {"finished", "raised"}

\* C6: a dequeued batch with zero traces after cleaning is not yielded, adds
\* exactly one to empty_batches and leaves short_batches unchanged.
C6_EmptyCountedNotYielded ==
  [][(DequeuesBatch /\ is_empty(DequeuedBatch)) =>
       /\ yielded' = yielded
       /\ empty_batches' = empty_batches + 1
       /\ short_batches' = short_batches]_vars

\* C7: with min_length supplied, a dequeued non-empty batch shorter than
\* min_length is not yielded and adds exactly one to short_batches; one whose
\* duration equals or exceeds min_length is yielded and leaves short_batches
\* unchanged.
C7_ShortCountedBoundaryYielded ==
  [][(/\ DequeuesBatch
      /\ min_length # NoMinLength
      /\ ~is_empty(DequeuedBatch)) =>
       IF duration(DequeuedBatch) < min_length
       THEN yielded' = yielded /\ short_batches' = short_batches + 1
       ELSE Yields /\ short_batches' = short_batches]_vars

\* C8: with a source that never raises and a consumer that keeps pulling a
\* stream of a prepared provider, fair scheduling brings the stream to DONE.
C8_EventuallyDone ==
  <>(\/ consumerPc = "done"
     \/ workerPc = "raised"
     \/ consumerPc = "cancelled"
     \/ error = "ValueError")

\* C9: every dequeued batch meets exactly one outcome: yielded, or counted in
\* empty_batches and dropped (also when it is too short as well), or counted
\* in short_batches and dropped; and when a stream that began with the counters
\* at zero (the first of its provider) ends normally, the three add up to the
\* number of batches the source emitted.
C9_ClassifiedExactlyOnce ==
  /\ [][DequeuesBatch =>
          \/ /\ ~is_empty(DequeuedBatch)
             /\ Yields
             /\ empty_batches' = empty_batches
             /\ short_batches' = short_batches
          \/ /\ is_empty(DequeuedBatch)
             /\ yielded' = yielded
             /\ empty_batches' = empty_batches + 1
             /\ short_batches' = short_batches
          \/ /\ ~is_empty(DequeuedBatch)
             /\ yielded' = yielded
             /\ empty_batches' = empty_batches
             /\ short_batches' = short_batches + 1]_vars
  /\ []((consumerPc = "done" /\ Len(chopper_requests) = 1) =>
          Len(yielded) + empty_batches + short_batches = fetched_batches)

\* C10: recording a batch while load_time is zero sets bytes_per_seconds to
\* zero and does not fail the stream; with load_time L > 0 it sets
\* bytes_per_seconds to cumulative_bytes / L.
C10_ThroughputGuarded ==
  [][DequeuesBatch =>
       IF load_time = 0
       THEN bytes_per_seconds'.num = 0 /\ consumerPc' # "failed"
       ELSE bytes_per_seconds'.num * load_time =
              cumulative_bytes(DequeuedBatch) * bytes_per_seconds'.den]_vars

\* C14 as claimed: whenever the worker is awaiting the source, the queue has a
\* free slot for the item being fetched.
C14_FetchNeverWhileFull == workerPc = "fetch" => ~full(queue, maxsize)

\* C14 as amended: the worker awaits the source only after every item it
\* fetched before has been put: it holds no item then and the queue is within
\* its capacity, but the queue may be full.
C14_FetchOnlyAfterPut ==
  workerPc = "fetch" => /\ pending = None
                        /\ Len(enqueued) = fetched_batches
                        /\ Len(queue) <= maxsize

\* C14 witness: the worker awaits the source while the queue is full.
C14_Witness ==
  workerPc = "fetch" /\ fetched_batches >= 1 /\ Len(queue) = maxsize

\* C15: when the stream ends normally every dequeued item has been
\* acknowledged with task_done, so no unfinished task is left for queue.join().
C15_AllAcknowledgedAtEnd == consumerPc = "done" => unfinished_tasks = 0

\* The batches (not the terminator) waiting in the queue.
BatchesInQueue == Len(SelectSeq(queue, LAMBDA item : item # None))

\* C19: the batches fetched and not yet dequeued are those in the queue, at
\* most capacity of them, plus the one the worker holds while suspended in
\* queue.put: never more than capacity + 1.
C19_AtMostCapacityPlusOne ==
  Streaming =>
    /\ BatchesInQueue <= maxsize
    /\ fetched_batches - dequeued =
         BatchesInQueue + (IF workerPc = "put" THEN 1 ELSE 0)
    /\ fetched_batches - dequeued <= maxsize + 1

\* C19 witness: capacity + 1 batches are fetched and not dequeued, at the
\* largest capacity.
C19_Witness == maxsize = MaxCap /\ fetched_batches - dequeued = maxsize + 1

\* C20: when the consumer has dequeued the terminator the queue is empty,
\* every batch the source emitted has been dequeued and the prefetch task has
\* finished.
C20_NormalEndDrained ==
  consumerPc = "done" => /\ queue = << >>
                         /\ dequeued = fetched_batches
                         /\ workerPc = "finished"

\* C20 witness: a stream of two or more batches has ended normally.
C20_Witness == consumerPc = "done" /\ dequeued >= 2

\* C16: the load_time recorded when a fetch completes is the time the source
\* took for that item; time the worker spent suspended in queue.put before
\* the request is not part of it.
C16_LoadTimeIsSourceTime ==
  [][fetched_batches' = fetched_batches + 1 => load_time' = fetch_elapsed]_vars

\* ------------------------------------------------------------------ C11
\* C11: a stream pulled before prepare() fails at once with the precondition
\* error, having asked the engine for nothing (no squirrel built, no
\* get_time_span, no chopper request) and having created no prefetcher task.
C11_NotPreparedFailsBeforeEngine ==
  error = "ValueError" =>
    /\ consumerPc = "failed"
    /\ ~stations => ~squirrel
    /\ get_time_span_calls = 0
    /\ chopper_requests = << >>
    /\ workerPc = "none"
    /\ yielded = << >>

C11_Witness == error = "ValueError" /\ ~stations /\ calls_left = 0

\* ------------------------------------------------------------------ C12
Determined(arg, own) == or_else(arg, own) # NoTime

SpanResolved == start_time # NoTime /\ end_time # NoTime

\* C12: a resolved start that is not strictly before the resolved end is
\* refused at span resolution: no source requested, no prefetcher started,
\* no batch yielded.
C12_InvertedSpanRefused ==
  (SpanResolved /\ start_time >= end_time) =>
    /\ chopper_requests = << >>
    /\ workerPc = "none"
    /\ yielded = << >>

\* ------------------------------------------------------------------ C13
\* C13: start and end are each the caller's argument if given, else the
\* provider's bound if set, else the extent the engine reports, and the
\* source is requested for [start + padding, end - padding].
C13_PrecedenceAndPaddedRange ==
  chopper_requests # << >> =>
    /\ start_time = IF arg_start_time # NoTime THEN arg_start_time
                    ELSE IF self_start_time # NoTime THEN self_start_time
                    ELSE sq_tmin
    /\ end_time = IF arg_end_time # NoTime THEN arg_end_time
                  ELSE IF self_end_time # NoTime THEN self_end_time
                  ELSE sq_tmax
    /\ chopper_requests[Len(chopper_requests)].tmin =
         start_time + window_padding
    /\ chopper_requests[Len(chopper_requests)].tmax =
         end_time - window_padding

C13_Witness ==
  /\ chopper_requests # << >>
  /\ arg_start_time # NoTime
  /\ self_start_time # NoTime
  /\ arg_start_time # self_start_time
  /\ arg_end_time = NoTime
  /\ self_end_time = NoTime
  /\ window_padding > 0

\* ------------------------------------------------------------------ C17
BothDetermined ==
  /\ Determined(arg_start_time, self_start_time)
  /\ Determined(arg_end_time, self_end_time)

\* C17: with start and end both determined by arguments or configuration,
\* get_time_span is never called.
C17_NoQueryWhenDetermined ==
  (BothDetermined /\ chopper_requests # << >>) => get_time_span_calls = 0

\* C17, amended: every stream of a prepared provider queries get_time_span
\* exactly once, whether or not its bounds are already determined.
C17_OneQueryPerStream == get_time_span_calls = Len(chopper_requests)

C17_Witness ==
  BothDetermined /\ chopper_requests # << >> /\ get_time_span_calls = 1

\* ------------------------------------------------------------------ C18
StreamBegins == Len(chopper_requests') = Len(chopper_requests) + 1

\* C18: empty_batches and short_batches are set to zero where a stream
\* begins.
C18_ResetAtStreamStart ==
  [][StreamBegins => (empty_batches' = 0 /\ short_batches' = 0)]_vars

\* C18, amended: the counters are zero on a new provider and are never reset:
\* no step lowers them and the begin of a stream leaves them as they are, so
\* a second stream on the same provider counts on from the first.
C18_CountersAccumulate ==
  [][/\ empty_batches' >= empty_batches
     /\ short_batches' >= short_batches
     /\ StreamBegins =>
          (empty_batches' = empty_batches /\ short_batches' = short_batches)
    ]_vars

C18_Witness ==
  /\ Len(chopper_requests) >= 2
  /\ dequeued = 0
  /\ empty_batches + short_batches >= 1

====
